---- MODULE Spec2Model ----
(***************************************************************************)
(* State-machine model of page-primer's Linux implementation               *)
(* (src/src/linux.rs, src/src/lib.rs).                                     *)
(*                                                                         *)
(* One behaviour is one call of Options::run.  The environment (thread     *)
(* count, the hpage_pmd_size file, the base page size, the loaded objects  *)
(* and the address space) is chosen in Init; every OS call is one step.    *)
(* Addresses are small naturals: one unit is one byte, a base page is 2 or *)
(* 4 bytes and a huge page 4 or 8 bytes, so that unaligned segments,       *)
(* paddings and inner huge pages all occur inside a few dozen addresses.   *)
(* All addresses stay far below the width of usize, so no address          *)
(* computation of the source wraps.                                        *)
(***************************************************************************)
EXTENDS Integers, Sequences, FiniteSets, TLC

\* ------------------------------------------------------------------ bounds
\* Segments of the generated single-segment programs lie in [0, AddrLimit).
AddrLimit == 12
\* Largest p_memsz of a generated segment.
MaxMemsz == 6
\* Largest thread count the environment reports.
MaxThreads == 2

\* The address space modelled is [0, VmTop): room for the programs and for the
\* temporary copy mapping the kernel places wherever it finds free pages.
VmTop == 32
Addr == 0 .. (VmTop - 1)

\* sysconf(_SC_PAGESIZE) and the sizes hpage_pmd_size may state.
BasePageSizes == {2, 4}
HugePageSizes == {4, 8}

\* ------------------------------------------------------- program constants
PF_X == 1
PF_W == 2
PF_R == 4
\* Vec::with_capacity(1024), scaled down so that a program of three loadable
\* segments overflows the buffer.
SegmentsCapacity == 2

\* ------------------------------------------------------------ bit algebra
RECURSIVE BitAnd(_, _)
\* a & b on usize / ElfWord
BitAnd(a, b) ==
    IF a = 0 \/ b = 0 THEN 0
    ELSE (a % 2) * (b % 2) + 2 * BitAnd(a \div 2, b \div 2)

RECURSIVE BitAndNot(_, _)
\* a & !m on usize (the complement has every higher bit set)
BitAndNot(a, m) ==
    IF a = 0 THEN 0
    ELSE (a % 2) * (1 - (m % 2)) + 2 * BitAndNot(a \div 2, m \div 2)

RECURSIVE count_ones(_)
count_ones(n) == IF n = 0 THEN 0 ELSE (n % 2) + count_ones(n \div 2)

is_power_of_two(n) == count_ones(n) = 1

\* The value standing for a failed assertion (a panic) of mask.
Panic == 0 - 1

\* fn mask: assert!(page_size.is_power_of_two() || page_size > 1); page_size - 1
mask(page_size) ==
    IF is_power_of_two(page_size) \/ page_size > 1 THEN page_size - 1 ELSE Panic

\* fn round_up
round_up(addr, m) ==
    IF BitAnd(addr, m) # 0 THEN BitAndNot(addr, m) + m + 1 ELSE addr

\* fn transform_prot: PF_* to the set of PROT_* bits
transform_prot(p_flags) ==
    (IF BitAnd(p_flags, PF_R) # 0 THEN {"PROT_READ"} ELSE {})
    \cup (IF BitAnd(p_flags, PF_W) # 0 THEN {"PROT_WRITE"} ELSE {})
    \cup (IF BitAnd(p_flags, PF_X) # 0 THEN {"PROT_EXEC"} ELSE {})

\* fn debug_prot: the three characters of the triad (each tests PF_R)
debug_prot(p_flags) ==
    << IF BitAnd(p_flags, PF_R) # 0 THEN "r" ELSE "-",
       IF BitAnd(p_flags, PF_R) # 0 THEN "w" ELSE "-",
       IF BitAnd(p_flags, PF_R) # 0 THEN "x" ELSE "-" >>

\* ------------------------------------------------------------------ ranges
Range(s, e) == [start |-> s, end |-> e]
NoRange == Range(0, 0)
InRange(a, r) == r.start <= a /\ a < r.end
\* Range<usize>::len()
RangeLen(r) == IF r.end > r.start THEN r.end - r.start ELSE 0
RangeSet(r) == {a \in Addr : InRange(a, r)}

\* Option<T>: << >> is None, <<v>> is Some(v)
None == << >>
Some(v) == <<v>>

\* Result<Range<usize>, HugeError>
Ok(r) == [ok |-> TRUE, range |-> r, err |-> "", errno |-> ""]
Err(e, no) == [ok |-> FALSE, range |-> NoRange, err |-> e, errno |-> no]
\* Result<(), c_int> of mlock
LockOk == [ok |-> TRUE, errno |-> ""]
LockErr(no) == [ok |-> FALSE, errno |-> no]

\* ------------------------------------------------------- the address space
\* One entry per address: what is mapped there, the byte read there, the
\* protection and whether the page is locked.
Unmapped == [kind |-> "unmapped", byte |-> 0, prot |-> {}, locked |-> FALSE]

\* The range lies in the address space and nothing is mapped in it.
RangeFree(m, r) ==
    /\ r.end <= VmTop
    /\ \A a \in RangeSet(r) : m[a].kind = "unmapped"

\* mmap(PROT_NONE, MAP_PRIVATE | MAP_ANONYMOUS) over r
MapReservation(m, r) ==
    [a \in Addr |-> IF InRange(a, r)
                    THEN [kind |-> "resv", byte |-> 0, prot |-> {}, locked |-> FALSE]
                    ELSE m[a]]

\* munmap(r.start, r.end - r.start)
Munmap(m, r) == [a \in Addr |-> IF InRange(a, r) THEN Unmapped ELSE m[a]]

\* mmap(NULL, len, PROT_READ | PROT_WRITE, MAP_SHARED, fd, 0) placed at t
MapTemporary(m, t, file) ==
    [a \in Addr |-> IF InRange(a, Range(t, t + Len(file)))
                    THEN [kind |-> "tmp", byte |-> file[a - t + 1],
                          prot |-> {"PROT_READ", "PROT_WRITE"}, locked |-> FALSE]
                    ELSE m[a]]

\* mmap(map.start, map.len(), prot, MAP_PRIVATE | MAP_FIXED, fd, 0)
MapFixed(m, map, prot, file) ==
    [a \in Addr |-> IF InRange(a, map)
                    THEN [kind |-> "memfd", byte |-> file[a - map.start + 1],
                          prot |-> prot, locked |-> FALSE]
                    ELSE m[a]]

\* The pages mlock(2) works on: every page the range touches.
LockedPages(r, page_mask) ==
    Range(BitAndNot(r.start, page_mask), round_up(r.end, page_mask))

\* mlock(2) pins every page the range touches
LockRange(m, r, page_mask) ==
    [a \in Addr |-> IF InRange(a, LockedPages(r, page_mask))
                    THEN [m[a] EXCEPT !.locked = TRUE]
                    ELSE m[a]]

\* unsafe fn mlock(range): Ok(()) with the pages pinned, which needs all of
\* them mapped, or Err(errno()) with nothing pinned
mlock(m, range, page_mask) ==
    {[res |-> LockOk, vm |-> LockRange(m, range, page_mask)] :
        x \in {y \in {0} : \A a \in RangeSet(LockedPages(range, page_mask)) :
                                m[a].kind # "unmapped"}}
    \cup {[res |-> LockErr("ENOMEM"), vm |-> m]}

\* ------------------------------------------------------------- environment
PT_LOAD == "PT_LOAD"

Phdr(t, vaddr, memsz, flags) ==
    [p_type |-> t, p_vaddr |-> vaddr, p_memsz |-> memsz, p_flags |-> flags]

\* The loadable segments of a program: runtime range and flags.
LoadSegments(objs) ==
    {[range |-> Range(objs[p[1]].dlpi_addr + objs[p[1]].phdrs[p[2]].p_vaddr,
                      objs[p[1]].dlpi_addr + objs[p[1]].phdrs[p[2]].p_vaddr
                          + objs[p[1]].phdrs[p[2]].p_memsz),
      flags |-> objs[p[1]].phdrs[p[2]].p_flags] :
        p \in {q \in (1 .. Len(objs)) \X (1 .. 3) :
                  /\ q[2] <= Len(objs[q[1]].phdrs)
                  /\ objs[q[1]].phdrs[q[2]].p_type = PT_LOAD}}

\* The base pages a range touches (P of the spec).
PageClosure(r, bsize) ==
    Range(BitAndNot(r.start, bsize - 1), round_up(r.end, bsize - 1))

\* The loader's work: every loadable segment is mapped from its file, page by
\* page, each address holding a distinct non-zero byte.
LoadedVm(objs, bsize, foreign) ==
    [a \in Addr |->
        IF \E g \in LoadSegments(objs) : InRange(a, PageClosure(g.range, bsize))
        THEN [kind |-> "file", byte |-> a + 1,
              prot |-> transform_prot(
                  (CHOOSE g \in LoadSegments(objs) :
                      InRange(a, PageClosure(g.range, bsize))).flags),
              locked |-> FALSE]
        ELSE IF a \in foreign
        THEN [kind |-> "foreign", byte |-> 0, prot |-> {"PROT_READ"}, locked |-> FALSE]
        ELSE Unmapped]

\* A main program of one loadable segment, anywhere below AddrLimit.
EnginePrograms ==
    {<< [dlpi_name |-> "", dlpi_addr |-> 0,
         phdrs |-> << Phdr(PT_LOAD, s, n, f) >>] >> :
        <<s, n, f>> \in {t \in (0 .. AddrLimit - 1) \X (0 .. MaxMemsz) \X (0 .. 7) :
                          t[1] + t[2] <= AddrLimit}}

\* A main program (text at 5..11, data at 12..15) and one library (text at
\* 18..23): three loadable segments and one header that is not loadable.
DriverProgram ==
    << [dlpi_name |-> "", dlpi_addr |-> 0,
        phdrs |-> << Phdr("PT_PHDR", 0, 2, PF_R),
                     Phdr(PT_LOAD, 5, 6, PF_R + PF_X),
                     Phdr(PT_LOAD, 12, 3, PF_R + PF_W) >>],
       [dlpi_name |-> "libc.so", dlpi_addr |-> 16,
        phdrs |-> << Phdr(PT_LOAD, 2, 5, PF_R + PF_X) >>] >>

\* Mappings of other owners next to the program: none, the lowest page, or
\* the page holding the last address below AddrLimit.
ForeignChoices(bsize) ==
    { {},
      RangeSet(Range(0, bsize)),
      RangeSet(PageClosure(Range(AddrLimit - 1, AddrLimit), bsize)) }

\* Contents of /sys/kernel/mm/transparent_hugepage/hpage_pmd_size: a missing
\* file, a read error, or the bytes read.
HpageFiles ==
    { [state |-> "NotFound", data |-> << >>],
      [state |-> "IoError", data |-> << >>],
      [state |-> "Read", data |-> <<"4", "\n">>],
      [state |-> "Read", data |-> <<"8", "\n">>],
      [state |-> "Read", data |-> <<"a", "b", "c">>] }

\* ------------------------------------------------- the huge page size probe
IsWhitespace(c) == c \in {" ", "\n", "\t"}

RECURSIVE TrimStart(_)
TrimStart(s) ==
    IF s # << >> /\ IsWhitespace(Head(s)) THEN TrimStart(Tail(s)) ELSE s

RECURSIVE TrimEnd(_)
TrimEnd(s) ==
    IF s # << >> /\ IsWhitespace(s[Len(s)])
    THEN TrimEnd(SubSeq(s, 1, Len(s) - 1)) ELSE s

\* str::trim
Trim(s) == TrimEnd(TrimStart(s))

Digits == {"0", "1", "2", "3", "4", "5", "6", "7", "8", "9"}

DigitValue(c) ==
    CASE c = "0" -> 0 [] c = "1" -> 1 [] c = "2" -> 2 [] c = "3" -> 3
      [] c = "4" -> 4 [] c = "5" -> 5 [] c = "6" -> 6 [] c = "7" -> 7
      [] c = "8" -> 8 [] c = "9" -> 9

RECURSIVE Decimal(_)
Decimal(s) ==
    IF s = << >> THEN 0
    ELSE 10 * Decimal(SubSeq(s, 1, Len(s) - 1)) + DigitValue(s[Len(s)])

\* usize::from_str: an optional '+', then one or more decimal digits
usize_from_str(s) ==
    LET d == IF s # << >> /\ Head(s) = "+" THEN Tail(s) ELSE s
    IN  IF d # << >> /\ \A i \in 1 .. Len(d) : d[i] \in Digits
        THEN [ok |-> TRUE, val |-> Decimal(d)]
        ELSE [ok |-> FALSE, val |-> 0]

\* A plausible slip of parse_huge_page_size: data.trim() forgotten.
parse_huge_page_size_untrimmed(data) ==
    IF \E i \in 1 .. Len(data) : data[i] = "0xFF"
    THEN [ok |-> FALSE, some |-> FALSE, size |-> 0, kind |-> "InvalidData"]
    ELSE IF usize_from_str(data).ok
    THEN [ok |-> TRUE, some |-> TRUE, size |-> usize_from_str(data).val,
          kind |-> ""]
    ELSE [ok |-> FALSE, some |-> FALSE, size |-> 0, kind |-> "InvalidData"]

\* fn parse_huge_page_size; the token "0xFF" is a byte that is not UTF-8
parse_huge_page_size(data) ==
    IF \E i \in 1 .. Len(data) : data[i] = "0xFF"
    THEN [ok |-> FALSE, some |-> FALSE, size |-> 0, kind |-> "InvalidData"]
    ELSE IF usize_from_str(Trim(data)).ok
    THEN [ok |-> TRUE, some |-> TRUE, size |-> usize_from_str(Trim(data)).val,
          kind |-> ""]
    ELSE [ok |-> FALSE, some |-> FALSE, size |-> 0, kind |-> "InvalidData"]

\* fn huge_page_size: Result<Option<usize>, Error> of the file
huge_page_size(file) ==
    CASE file.state = "NotFound" ->
            [ok |-> TRUE, some |-> FALSE, size |-> 0, kind |-> ""]
      [] file.state = "IoError" ->
            [ok |-> FALSE, some |-> FALSE, size |-> 0, kind |-> "Other"]
      [] OTHER -> parse_huge_page_size(file.data)

\* fn program_name: the path of the current executable
program_name == "/proc/self/exe"

\* ------------------------------------------------------------------- state
VARIABLES
    options,        \* Options {mlock, remap}
    num_threads,    \* what num_threads::num_threads() returns
    hpage_file,     \* the hpage_pmd_size file
    page_size,      \* sysconf(_SC_PAGESIZE)
    proc_maps,      \* whether /proc/self/maps can be read
    objects,        \* the objects dl_iterate_phdr reports
    vm,             \* the address space of the process
    pc,             \* the statement run() is at
    log,            \* Output.log
    huge_page_mask, \* run's local
    ctx,            \* Context
    object_n,       \* the object dl_iterate_phdr is calling back for
    phdr_n,         \* the program header the loop of phdr_cb_inner is at
    seg,            \* the Segment under construction
    rm,             \* the locals of Segment::remap and replace
    oscalls,        \* the OS calls made so far in this run (their names)
    attempted       \* the segments phdr_cb_inner has finished with, kept or not

env == <<options, num_threads, hpage_file, page_size, proc_maps, objects>>
vars == <<options, num_threads, hpage_file, page_size, proc_maps, objects, vm,
          pc, log, huge_page_mask, ctx, object_n, phdr_n, seg, rm, oscalls,
          attempted>>

NoContext ==
    [mlock |-> FALSE, base_page_mask |-> 0, huge_page_mask |-> None,
     next_object_i |-> 0, program_name |-> "", segments |-> << >>]

NoSegment ==
    [object_i |-> 0, flags |-> 0, addrs |-> NoRange, remap |-> None,
     mlock |-> None, path |-> ""]

\* The locals of Segment::remap and replace before the call.  Beside them:
\* whether each padding reservation was attempted and what it took, the OS
\* calls the call has made, how often it closed fd, and vm_entry, the
\* address space as the call found it.
NoRemap ==
    [page_range |-> NoRange, hugepage_outer_range |-> NoRange,
     hugepage_inner_range |-> NoRange,
     start_reservation |-> None, end_reservation |-> None,
     start_attempted |-> FALSE, end_attempted |-> FALSE,
     start_taken |-> None, end_taken |-> None,
     start |-> 0, end |-> 0, map |-> NoRange, copy |-> NoRange,
     fd |-> "none", closes |-> 0, file |-> << >>, tmp_addr |-> None,
     result |-> None, calls |-> {}, vm_entry |-> << >>]

\* No two loadable segments share a base page, and no foreign mapping lies on
\* a segment's pages.
WellLoaded(objs, bsize, foreign) ==
    /\ \A g, h \in LoadSegments(objs) :
          g # h => RangeSet(PageClosure(g.range, bsize))
                      \cap RangeSet(PageClosure(h.range, bsize)) = {}
    /\ \A g \in LoadSegments(objs) :
          RangeSet(PageClosure(g.range, bsize)) \cap foreign = {}

InitLocals ==
    /\ pc = "run"
    /\ log = << >>
    /\ huge_page_mask = None
    /\ ctx = NoContext
    /\ object_n = 0
    /\ phdr_n = 0
    /\ seg = NoSegment
    /\ rm = NoRemap
    /\ oscalls = {}
    /\ attempted = << >>

\* The remap engine on every single-segment program: remap requested, one
\* thread, a readable huge page size.
InitEngine ==
    /\ options = [mlock |-> FALSE, remap |-> TRUE]
    /\ num_threads = Some(1)
    /\ hpage_file \in {f \in HpageFiles :
                          huge_page_size(f).some /\ huge_page_size(f).size \in HugePageSizes}
    /\ page_size \in BasePageSizes
    /\ proc_maps = TRUE
    /\ objects \in EnginePrograms
    /\ \E foreign \in ForeignChoices(page_size) :
          /\ WellLoaded(objects, page_size, foreign)
          /\ vm = LoadedVm(objects, page_size, foreign)

\* The driver on one program of several objects: every option, thread count
\* and probe outcome.
InitDriver ==
    /\ options \in [mlock : BOOLEAN, remap : BOOLEAN]
    /\ num_threads \in {None} \cup {Some(t) : t \in 1 .. MaxThreads}
    /\ hpage_file \in HpageFiles
    /\ page_size \in BasePageSizes
    /\ proc_maps \in BOOLEAN
    /\ objects = DriverProgram
    /\ vm = LoadedVm(objects, page_size, {})

Init == InitLocals /\ (InitEngine \/ InitDriver)

\* ------------------------------------------------------------- the records
Record(level, text, arg) == [level |-> level, text |-> text, arg |-> arg]

\* What /proc/self/maps shows: what is mapped at each address.
MapsSnapshot(m) == [a \in Addr |-> m[a].kind]

\* A plausible slip of log_maps: the failure of the read taken for success.
log_maps_arms_exchanged(when, l) ==
    Append(l, IF ~proc_maps
              THEN Record("Trace",
                          IF when = "before" THEN "maps before:" ELSE "maps after:",
                          <<MapsSnapshot(vm)>>)
              ELSE Record("Trace", "couldn't read maps", << >>))

\* fn log_maps
log_maps(when, l) ==
    Append(l, IF proc_maps
              THEN Record("Trace",
                          IF when = "before" THEN "maps before:" ELSE "maps after:",
                          <<MapsSnapshot(vm)>>)
              ELSE Record("Trace", "couldn't read maps", << >>))

\* impl Display for HugeError
HugeErrorDisplay(e) ==
    CASE e.err = "Unreadable" -> <<"unreadable", "">>
      [] e.err = "Conflict" ->
            <<"conflicting mappings within all relevant huge pages", "">>
      [] e.err = "Writable" -> <<"writable", "">>
      [] e.err = "MemfdCreateFailed" -> <<"memfd_create failed", e.errno>>
      [] e.err = "FtruncateFailed" -> <<"ftruncate failed", e.errno>>
      [] e.err = "InitialMmapFailed" -> <<"initial mmap failed", e.errno>>
      [] e.err = "RemapFailed" -> <<"remap failed", e.errno>>

\* The text one segment adds to the info record: the header of its object when
\* the object changes, then its line.
SegmentLines(obj, last_object_i) ==
    (IF Some(obj.object_i) # last_object_i
     THEN << [line |-> "object", path |-> obj.path, addrs |-> NoRange,
              prot |-> << >>, remap |-> None, mlock |-> None] >>
     ELSE << >>)
    \o << [line |-> "*", path |-> "", addrs |-> obj.addrs,
           prot |-> debug_prot(obj.flags),
           remap |-> IF obj.remap = None THEN None
                     ELSE IF obj.remap[1].ok
                     THEN Some([ok |-> TRUE, range |-> obj.remap[1].range,
                                text |-> <<"", "">>])
                     ELSE Some([ok |-> FALSE, range |-> NoRange,
                                text |-> HugeErrorDisplay(obj.remap[1])]),
           mlock |-> IF obj.mlock = None THEN None
                     ELSE IF obj.mlock[1].ok THEN Some(<<"success", "">>)
                     ELSE Some(<<"error", obj.mlock[1].errno>>)] >>

RECURSIVE PrimedPages(_, _, _)
\* The loop of run over ctx.segments, from segment i on.
PrimedPages(segments, i, last_object_i) ==
    IF i > Len(segments) THEN << >>
    ELSE SegmentLines(segments[i], last_object_i)
            \o PrimedPages(segments, i + 1, Some(segments[i].object_i))

\* ------------------------------------------------------------------ run()
\* log_maps("before", &mut log)
run_log_maps_before ==
    /\ pc = "run"
    /\ log' = log_maps("before", log)
    /\ pc' = "num_threads"
    /\ UNCHANGED <<env, vm, huge_page_mask, ctx, object_n, phdr_n, seg, rm, oscalls, attempted>>

\* A plausible slip of run_num_threads: any known thread count accepted.
run_num_threads_any ==
    /\ pc = "num_threads"
    /\ IF num_threads # None
       THEN /\ pc' = "huge_page_size"
            /\ UNCHANGED log
       ELSE /\ log' = Append(log, Record("Warn",
                        "Skipping page priming: unable to get thread count!", << >>))
            /\ pc' = "done"
    /\ UNCHANGED <<env, vm, huge_page_mask, ctx, object_n, phdr_n, seg, rm, oscalls, attempted>>

\* match num_threads::num_threads()
run_num_threads ==
    /\ pc = "num_threads"
    /\ IF num_threads = Some(1)
       THEN /\ pc' = "huge_page_size"
            /\ UNCHANGED log
       ELSE IF num_threads # None
       THEN /\ log' = Append(log, Record("Warn",
                        "Skipping page priming: there are {t} threads running; must be 1!",
                        num_threads))
            /\ pc' = "done"
       ELSE /\ log' = Append(log, Record("Warn",
                        "Skipping page priming: unable to get thread count!", << >>))
            /\ pc' = "done"
    /\ UNCHANGED <<env, vm, huge_page_mask, ctx, object_n, phdr_n, seg, rm, oscalls, attempted>>

\* let huge_page_mask = if options.remap { match huge_page_size() ... }
run_huge_page_size ==
    /\ pc = "huge_page_size"
    /\ LET probe == huge_page_size(hpage_file) IN
       IF ~options.remap
       THEN /\ huge_page_mask' = None
            /\ pc' = "check_operations"
            /\ UNCHANGED log
       ELSE IF probe.ok /\ probe.some
       THEN IF mask(probe.size) = Panic
            THEN /\ pc' = "panic"
                 /\ UNCHANGED <<huge_page_mask, log>>
            ELSE /\ huge_page_mask' = Some(mask(probe.size))
                 /\ pc' = "check_operations"
                 /\ UNCHANGED log
       ELSE IF probe.ok
       THEN /\ log' = Append(log, Record("Warn",
                        "Huge page remapping requested but huge pages unavailable.",
                        << >>))
            /\ huge_page_mask' = None
            /\ pc' = "check_operations"
       ELSE /\ log' = Append(log, Record("Warn",
                        "Unable to describe huge page size: {e}", <<probe.kind>>))
            /\ huge_page_mask' = None
            /\ pc' = "check_operations"
    /\ UNCHANGED <<env, vm, ctx, object_n, phdr_n, seg, rm, oscalls, attempted>>

\* A plausible slip of no_operations: the negation of mlock lost.
no_operations_unnegated(hmask, lock) == hmask = None /\ lock

\* huge_page_mask.is_none() && !options.mlock
no_operations(hmask, lock) == hmask = None /\ ~lock

\* A plausible slip of run_check_operations: the return after the warning lost.
run_check_operations_falls_through ==
    /\ pc = "check_operations"
    /\ log' = IF no_operations(huge_page_mask, options.mlock)
              THEN Append(log, Record("Warn",
                        "No page priming operations to perform.", << >>))
              ELSE log
    /\ ctx' = [mlock |-> options.mlock,
               base_page_mask |-> mask(page_size),
               huge_page_mask |-> huge_page_mask,
               next_object_i |-> 0,
               program_name |-> program_name,
               segments |-> << >>]
    /\ pc' = "dl_iterate_phdr"
    /\ UNCHANGED <<env, vm, huge_page_mask, object_n, phdr_n, seg, rm, oscalls, attempted>>

\* if huge_page_mask.is_none() && !options.mlock { ... return }; let mut ctx
run_check_operations ==
    /\ pc = "check_operations"
    /\ IF no_operations(huge_page_mask, options.mlock)
       THEN /\ log' = Append(log, Record("Warn",
                        "No page priming operations to perform.", << >>))
            /\ pc' = "done"
            /\ UNCHANGED ctx
       ELSE /\ ctx' = [mlock |-> options.mlock,
                       base_page_mask |-> mask(page_size),
                       huge_page_mask |-> huge_page_mask,
                       next_object_i |-> 0,
                       program_name |-> program_name,
                       segments |-> << >>]
            /\ pc' = "dl_iterate_phdr"
            /\ UNCHANGED log
    /\ UNCHANGED <<env, vm, huge_page_mask, object_n, phdr_n, seg, rm, oscalls, attempted>>

\* libc::dl_iterate_phdr(Some(phdr_cb), &mut ctx): the first callback
run_dl_iterate_phdr ==
    /\ pc = "dl_iterate_phdr"
    /\ oscalls' = oscalls \cup {"dl_iterate_phdr"}
    /\ object_n' = 1
    /\ phdr_n' = 1
    /\ pc' = "for_seg"
    /\ UNCHANGED <<env, vm, log, huge_page_mask, ctx, seg, rm, attempted>>

\* ---------------------------------------------------------- phdr_cb_inner
\* let name = if ctx.next_object_i == 0 { program_name } else { dlpi_name }
ObjectName(c, info) ==
    IF c.next_object_i = 0 THEN c.program_name ELSE info.dlpi_name

\* for seg in segs: the headers are exhausted; ctx.next_object_i += 1 and
\* dl_iterate_phdr calls back for the next object or returns to run
phdr_cb_inner_return ==
    /\ pc = "for_seg"
    /\ phdr_n > Len(objects[object_n].phdrs)
    /\ ctx' = [ctx EXCEPT !.next_object_i = @ + 1]
    /\ IF object_n < Len(objects)
       THEN /\ object_n' = object_n + 1
            /\ phdr_n' = 1
            /\ pc' = "for_seg"
       ELSE /\ pc' = "report"
            /\ UNCHANGED <<object_n, phdr_n>>
    /\ UNCHANGED <<env, vm, log, huge_page_mask, seg, rm, oscalls, attempted>>

\* if seg.p_type != libc::PT_LOAD { continue; }
phdr_cb_inner_continue ==
    /\ pc = "for_seg"
    /\ phdr_n <= Len(objects[object_n].phdrs)
    /\ objects[object_n].phdrs[phdr_n].p_type # PT_LOAD
    /\ phdr_n' = phdr_n + 1
    /\ UNCHANGED <<env, vm, pc, log, huge_page_mask, ctx, object_n, seg, rm, oscalls, attempted>>

\* let mut seg = Segment { ... }
phdr_cb_inner_segment ==
    /\ pc = "for_seg"
    /\ phdr_n <= Len(objects[object_n].phdrs)
    /\ objects[object_n].phdrs[phdr_n].p_type = PT_LOAD
    /\ LET info == objects[object_n]
           ph == info.phdrs[phdr_n]
           vaddr == info.dlpi_addr + ph.p_vaddr
           vend == vaddr + ph.p_memsz
       IN  seg' = [object_i |-> ctx.next_object_i,
                   flags |-> ph.p_flags,
                   addrs |-> Range(vaddr, vend),
                   remap |-> None,
                   mlock |-> None,
                   path |-> ObjectName(ctx, info)]
    /\ pc' = IF ctx.huge_page_mask # None THEN "remap" ELSE "mlock"
    /\ UNCHANGED <<env, vm, log, huge_page_mask, ctx, object_n, phdr_n, rm, oscalls, attempted>>

\* ---------------------------------------------------------- Reservation
\* A plausible slip of Reservation_new: MAP_FIXED in place of
\* MAP_FIXED_NOREPLACE, which maps over whatever is there.
Reservation_new_replacing(m, range, bsize) ==
    {[res |-> Some(range), vm |-> MapReservation(m, range), calls |-> {"mmap"}] :
        x \in {y \in {0} : range.end <= VmTop}}
    \cup {[res |-> None, vm |-> m, calls |-> {"mmap"}]}

\* Reservation::new(range): every outcome the mmap(PROT_NONE, MAP_PRIVATE |
\* MAP_ANONYMOUS | MAP_FIXED_NOREPLACE) call and the match on it can have.
\* res is the Option<Reservation> returned, vm the address space left.
Reservation_new(m, range, bsize) ==
    \* r == range.start: the range was free and is now reserved
    {[res |-> Some(range), vm |-> MapReservation(m, range), calls |-> {"mmap"}] :
        x \in {y \in {0} : RangeFree(m, range)}}
    \* MAP_FAILED: EEXIST on overlap, or any other failure
    \cup {[res |-> None, vm |-> m, calls |-> {"mmap"}]}
    \* a kernel that ignores MAP_FIXED_NOREPLACE maps elsewhere on overlap;
    \* munmap(o, range.len())
    \cup {[res |-> None,
           vm |-> Munmap(MapReservation(m, Range(o, o + RangeLen(range))),
                         Range(o, o + RangeLen(range))),
           calls |-> {"mmap", "munmap"}] :
            o \in {a \in Addr : /\ ~RangeFree(m, range)
                                /\ a # range.start
                                /\ BitAnd(a, bsize - 1) = 0
                                /\ RangeFree(m, Range(a, a + RangeLen(range)))}}

\* A plausible slip of Reservation_drop: the range is never unmapped.
Reservation_leak(m, reservation) == m

\* impl Drop for Reservation, on an Option<Reservation>
Reservation_drop(m, reservation) ==
    IF reservation = None THEN m ELSE Munmap(m, reservation[1])

\* ------------------------------------------------------- Segment::remap
page_range_of(addrs, base_page_mask) ==
    Range(BitAndNot(addrs.start, base_page_mask), round_up(addrs.end, base_page_mask))

hugepage_outer_range_of(addrs, hmask) ==
    Range(BitAndNot(addrs.start, hmask), round_up(addrs.end, hmask))

\* A plausible slip of hugepage_inner_range_of: rounded outward, not inward.
hugepage_inner_range_outward(page_range, hmask) ==
    Range(BitAndNot(page_range.start, hmask), round_up(page_range.end, hmask))

hugepage_inner_range_of(page_range, hmask) ==
    Range(round_up(page_range.start, hmask), BitAndNot(page_range.end, hmask))

\* A plausible slip of planned_start: the two arms exchanged.
planned_start_exchanged(reservation, outer, inner) ==
    IF reservation # None THEN inner.start ELSE outer.start

\* match start_reservation.is_some() { true => outer.start, false => inner.start }
planned_start(reservation, outer, inner) ==
    IF reservation # None THEN outer.start ELSE inner.start

\* A plausible slip of planned_end: the end reservation taken for granted.
planned_end_unchecked(reservation, outer, inner) == outer.end

\* A plausible slip of planned_end: the reservation ignored.
planned_end_inner(reservation, outer, inner) == inner.end

\* match end_reservation.is_some() { true => outer.end, false => inner.end }
planned_end(reservation, outer, inner) ==
    IF reservation # None THEN outer.end ELSE inner.end

\* let copy = max(start, page_range.start)..min(end, page_range.end)
copy_range(start, end, page_range) ==
    Range(IF start > page_range.start THEN start ELSE page_range.start,
          IF end < page_range.end THEN end ELSE page_range.end)

\* A plausible slip of refused: the writable check made first.
refused_writable_first(flags) ==
    IF BitAnd(flags, PF_W) # 0 THEN Some(Err("Writable", ""))
    ELSE IF BitAnd(flags, PF_R) = 0 THEN Some(Err("Unreadable", ""))
    ELSE None

\* if (self.flags & PF_R) == 0 { return Err(Unreadable) }
\* if (self.flags & PF_W) != 0 { return Err(Writable) }
refused(flags) ==
    IF BitAnd(flags, PF_R) = 0 THEN Some(Err("Unreadable", ""))
    ELSE IF BitAnd(flags, PF_W) # 0 THEN Some(Err("Writable", ""))
    ELSE None

\* The flag checks and the three ranges.
remap_entry ==
    /\ pc = "remap"
    /\ LET entered == [NoRemap EXCEPT !.vm_entry = vm]
           page_range == page_range_of(seg.addrs, ctx.base_page_mask)
       IN
       IF refused(seg.flags) # None
       THEN /\ rm' = [entered EXCEPT !.result = refused(seg.flags)]
            /\ pc' = "remap_ret"
       ELSE /\ rm' = [entered EXCEPT
                        !.page_range = page_range,
                        !.hugepage_outer_range =
                            hugepage_outer_range_of(seg.addrs, ctx.huge_page_mask[1]),
                        !.hugepage_inner_range =
                            hugepage_inner_range_of(page_range, ctx.huge_page_mask[1])]
            /\ pc' = "start_reservation"
    /\ UNCHANGED <<env, vm, log, huge_page_mask, ctx, object_n, phdr_n, seg, oscalls, attempted>>

\* let start = if hugepage_outer_range.start < page_range.start { ... }
remap_start ==
    /\ pc = "start_reservation"
    /\ IF rm.hugepage_outer_range.start < rm.page_range.start
       THEN \E o \in Reservation_new(vm, Range(rm.hugepage_outer_range.start,
                                               rm.page_range.start), page_size) :
              /\ vm' = o.vm
              /\ rm' = [rm EXCEPT
                          !.start_reservation = o.res,
                          !.start_taken = o.res,
                          !.start_attempted = TRUE,
                          !.start = planned_start(o.res, rm.hugepage_outer_range,
                                                  rm.hugepage_inner_range),
                          !.calls = @ \cup o.calls]
              /\ oscalls' = oscalls \cup o.calls
       ELSE /\ rm' = [rm EXCEPT !.start = rm.hugepage_inner_range.start]
            /\ UNCHANGED <<vm, oscalls>>
    /\ pc' = "end_reservation"
    /\ UNCHANGED <<env, log, huge_page_mask, ctx, object_n, phdr_n, seg, attempted>>

\* let end = if hugepage_outer_range.end > page_range.end { ... }
remap_end ==
    /\ pc = "end_reservation"
    /\ IF rm.hugepage_outer_range.end > rm.page_range.end
       THEN \E o \in Reservation_new(vm, Range(rm.page_range.end,
                                               rm.hugepage_outer_range.end), page_size) :
              /\ vm' = o.vm
              /\ rm' = [rm EXCEPT
                          !.end_reservation = o.res,
                          !.end_taken = o.res,
                          !.end_attempted = TRUE,
                          !.end = planned_end(o.res, rm.hugepage_outer_range,
                                              rm.hugepage_inner_range),
                          !.calls = @ \cup o.calls]
              /\ oscalls' = oscalls \cup o.calls
       ELSE /\ rm' = [rm EXCEPT !.end = rm.hugepage_inner_range.end]
            /\ UNCHANGED <<vm, oscalls>>
    /\ pc' = "plan"
    /\ UNCHANGED <<env, log, huge_page_mask, ctx, object_n, phdr_n, seg, attempted>>

\* if start >= end { return Err(HugeError::Conflict); }; let copy = ...
remap_plan ==
    /\ pc = "plan"
    /\ IF rm.start >= rm.end
       THEN /\ rm' = [rm EXCEPT !.result = Some(Err("Conflict", ""))]
            /\ pc' = "drop"
       ELSE /\ rm' = [rm EXCEPT
                        !.map = Range(rm.start, rm.end),
                        !.copy = copy_range(rm.start, rm.end, rm.page_range)]
            /\ pc' = "memfd_create"
    /\ UNCHANGED <<env, vm, log, huge_page_mask, ctx, object_n, phdr_n, seg, oscalls, attempted>>

\* ---------------------------------------------------------------- replace
\* let fd = memfd_create(path, MFD_CLOEXEC | MFD_HUGETLB)
replace_memfd_create ==
    /\ pc = "memfd_create"
    /\ \/ /\ rm' = [rm EXCEPT !.fd = "open", !.file = << >>]
          /\ pc' = "ftruncate"
       \/ /\ rm' = [rm EXCEPT !.result = Some(Err("MemfdCreateFailed", "EMFILE"))]
          /\ pc' = "drop"
    /\ oscalls' = oscalls \cup {"memfd_create"}
    /\ UNCHANGED <<env, vm, log, huge_page_mask, ctx, object_n, phdr_n, seg, attempted>>

\* A plausible slip of replace_ftruncate: the failure path returns without
\* close(fd).
replace_ftruncate_leaking ==
    /\ pc = "ftruncate"
    /\ \/ /\ rm' = [rm EXCEPT !.file = [i \in 1 .. RangeLen(rm.map) |-> 0]]
          /\ pc' = "mmap_tmp"
       \/ /\ rm' = [rm EXCEPT !.result = Some(Err("FtruncateFailed", "ENOMEM"))]
          /\ pc' = "drop"
    /\ oscalls' = oscalls \cup {"ftruncate"}
    /\ UNCHANGED <<env, vm, log, huge_page_mask, ctx, object_n, phdr_n, seg, attempted>>

\* if libc::ftruncate(fd, map.len() as i64) == -1 { close(fd); return Err }
replace_ftruncate ==
    /\ pc = "ftruncate"
    /\ \/ /\ rm' = [rm EXCEPT !.file = [i \in 1 .. RangeLen(rm.map) |-> 0]]
          /\ pc' = "mmap_tmp"
       \/ /\ rm' = [rm EXCEPT !.fd = "closed", !.closes = @ + 1,
                              !.result = Some(Err("FtruncateFailed", "ENOMEM"))]
          /\ pc' = "drop"
    /\ oscalls' = oscalls \cup {"ftruncate"}
    /\ UNCHANGED <<env, vm, log, huge_page_mask, ctx, object_n, phdr_n, seg, attempted>>

\* let tmp_addr = match libc::mmap(null, map.len(), RW, MAP_SHARED, fd, 0)
\* The kernel places a mapping of a huge page file at any free huge page
\* boundary.
replace_mmap_tmp ==
    /\ pc = "mmap_tmp"
    /\ \/ \E t \in Addr :
            /\ BitAnd(t, ctx.huge_page_mask[1]) = 0
            /\ RangeFree(vm, Range(t, t + RangeLen(rm.map)))
            /\ vm' = MapTemporary(vm, t, rm.file)
            /\ rm' = [rm EXCEPT !.tmp_addr = Some(t), !.calls = @ \cup {"mmap"}]
            /\ pc' = "memcpy"
       \/ /\ rm' = [rm EXCEPT !.fd = "closed", !.closes = @ + 1, !.calls = @ \cup {"mmap"},
                              !.result = Some(Err("InitialMmapFailed", "ENOMEM"))]
          /\ pc' = "drop"
          /\ UNCHANGED vm
    /\ oscalls' = oscalls \cup {"mmap"}
    /\ UNCHANGED <<env, log, huge_page_mask, ctx, object_n, phdr_n, seg, attempted>>

\* A plausible slip of memcpy_dst: the offset of copy in map forgotten.
memcpy_dst_no_offset(copy, tmp_addr, map) == tmp_addr

\* let dst = copy.start.wrapping_add(tmp_addr).wrapping_sub(map.start)
memcpy_dst(copy, tmp_addr, map) == copy.start + tmp_addr - map.start

\* libc::memcpy(dst, copy.start, copy.len()): the bytes land in the shared
\* mapping, hence in the file
replace_memcpy ==
    /\ pc = "memcpy"
    /\ LET t == rm.tmp_addr[1]
           dst == memcpy_dst(rm.copy, t, rm.map)
           written == [a \in Addr |->
                          IF InRange(a, Range(dst, dst + RangeLen(rm.copy)))
                          THEN [vm[a] EXCEPT !.byte = vm[rm.copy.start + (a - dst)].byte]
                          ELSE vm[a]]
       IN  /\ vm' = written
           /\ rm' = [rm EXCEPT !.file = [i \in 1 .. Len(rm.file) |-> written[t + i - 1].byte]]
    /\ pc' = "munmap_tmp"
    /\ UNCHANGED <<env, log, huge_page_mask, ctx, object_n, phdr_n, seg, oscalls, attempted>>

\* libc::munmap(tmp_addr, map.len())
replace_munmap_tmp ==
    /\ pc = "munmap_tmp"
    /\ vm' = Munmap(vm, Range(rm.tmp_addr[1], rm.tmp_addr[1] + RangeLen(rm.map)))
    /\ rm' = [rm EXCEPT !.calls = @ \cup {"munmap"}]
    /\ oscalls' = oscalls \cup {"munmap"}
    /\ pc' = "mmap_fixed"
    /\ UNCHANGED <<env, log, huge_page_mask, ctx, object_n, phdr_n, seg, attempted>>

\* if libc::mmap(map.start, map.len(), prot, MAP_PRIVATE | MAP_FIXED, fd, 0)
\*     == MAP_FAILED { close(fd); return Err }; close(fd); Ok(())
\* A failed MAP_FIXED call may already have removed what was mapped in the range.
replace_mmap_fixed ==
    /\ pc = "mmap_fixed"
    /\ \/ /\ vm' = MapFixed(vm, rm.map, transform_prot(seg.flags), rm.file)
          /\ rm' = [rm EXCEPT !.fd = "closed", !.closes = @ + 1, !.calls = @ \cup {"mmap"}]
          /\ pc' = "forget"
       \/ /\ vm' \in {vm, Munmap(vm, rm.map)}
          /\ rm' = [rm EXCEPT !.fd = "closed", !.closes = @ + 1, !.calls = @ \cup {"mmap"},
                              !.result = Some(Err("RemapFailed", "ENOMEM"))]
          /\ pc' = "drop"
    /\ oscalls' = oscalls \cup {"mmap"}
    /\ UNCHANGED <<env, log, huge_page_mask, ctx, object_n, phdr_n, seg, attempted>>

\* A plausible slip of remap_forget: the reservations dropped, not forgotten.
remap_forget_dropping ==
    /\ pc = "forget"
    /\ vm' = Reservation_drop(Reservation_drop(vm, rm.end_reservation),
                              rm.start_reservation)
    /\ rm' = [rm EXCEPT !.start_reservation = None, !.end_reservation = None,
                        !.result = Some(Ok(Range(rm.start, rm.end)))]
    /\ pc' = "remap_ret"
    /\ UNCHANGED <<env, log, huge_page_mask, ctx, object_n, phdr_n, seg, oscalls, attempted>>

\* Ok(()) => { forget(start_reservation); forget(end_reservation); Ok(start..end) }
remap_forget ==
    /\ pc = "forget"
    /\ rm' = [rm EXCEPT !.start_reservation = None, !.end_reservation = None,
                        !.result = Some(Ok(Range(rm.start, rm.end)))]
    /\ pc' = "remap_ret"
    /\ UNCHANGED <<env, vm, log, huge_page_mask, ctx, object_n, phdr_n, seg, oscalls, attempted>>

\* An Err return drops end_reservation, then start_reservation.
remap_drop ==
    /\ pc = "drop"
    /\ vm' = Reservation_drop(Reservation_drop(vm, rm.end_reservation),
                              rm.start_reservation)
    /\ rm' = [rm EXCEPT
                !.start_reservation = None, !.end_reservation = None,
                !.calls = @ \cup (IF rm.start_reservation # None
                                       \/ rm.end_reservation # None
                                    THEN {"munmap"} ELSE {})]
    /\ oscalls' = oscalls \cup (IF rm.start_reservation # None \/ rm.end_reservation # None
                                THEN {"munmap"} ELSE {})
    /\ pc' = "remap_ret"
    /\ UNCHANGED <<env, log, huge_page_mask, ctx, object_n, phdr_n, seg, attempted>>

\* A plausible slip of phdr_cb_inner_remap: an Err ends the enumeration.
phdr_cb_inner_remap_propagates ==
    /\ pc = "remap_ret"
    /\ seg' = [seg EXCEPT !.remap = Some(rm.result[1])]
    /\ rm' = NoRemap
    /\ pc' = IF rm.result[1].ok THEN "mlock" ELSE "report"
    /\ UNCHANGED <<env, vm, log, huge_page_mask, ctx, object_n, phdr_n, oscalls, attempted>>

\* seg.remap = Some(unsafe { seg.remap(ctx.base_page_mask, huge_page_mask) })
phdr_cb_inner_remap ==
    /\ pc = "remap_ret"
    /\ seg' = [seg EXCEPT !.remap = Some(rm.result[1])]
    /\ rm' = NoRemap
    /\ pc' = "mlock"
    /\ UNCHANGED <<env, vm, log, huge_page_mask, ctx, object_n, phdr_n, oscalls, attempted>>

\* A plausible slip of phdr_cb_inner_mlock: the achieved range locked.
phdr_cb_inner_mlock_achieved ==
    /\ pc = "mlock"
    /\ IF ctx.mlock
       THEN /\ \E o \in mlock(vm, IF seg.remap # None /\ seg.remap[1].ok
                                    THEN seg.remap[1].range ELSE seg.addrs,
                               page_size - 1) :
                  /\ vm' = o.vm
                  /\ seg' = [seg EXCEPT !.mlock = Some(o.res)]
            /\ oscalls' = oscalls \cup {"mlock"}
       ELSE UNCHANGED <<vm, seg, oscalls>>
    /\ pc' = "push"
    /\ UNCHANGED <<env, log, huge_page_mask, ctx, object_n, phdr_n, rm, attempted>>

\* A plausible slip of phdr_cb_inner_mlock: the result of mlock not kept.
phdr_cb_inner_mlock_result_lost ==
    /\ pc = "mlock"
    /\ IF ctx.mlock
       THEN /\ \E o \in mlock(vm, seg.addrs, page_size - 1) : vm' = o.vm
            /\ oscalls' = oscalls \cup {"mlock"}
       ELSE UNCHANGED <<vm, oscalls>>
    /\ pc' = "push"
    /\ UNCHANGED <<env, log, huge_page_mask, ctx, object_n, phdr_n, seg, rm, attempted>>

\* if ctx.mlock { seg.mlock = Some(unsafe { mlock(seg.addrs.clone()) }) }
phdr_cb_inner_mlock ==
    /\ pc = "mlock"
    /\ IF ctx.mlock
       THEN /\ \E o \in mlock(vm, seg.addrs, page_size - 1) :
                  /\ vm' = o.vm
                  /\ seg' = [seg EXCEPT !.mlock = Some(o.res)]
            /\ oscalls' = oscalls \cup {"mlock"}
       ELSE UNCHANGED <<vm, seg, oscalls>>
    /\ pc' = "push"
    /\ UNCHANGED <<env, log, huge_page_mask, ctx, object_n, phdr_n, rm, attempted>>

\* if ctx.segments.len() < ctx.segments.capacity() { ctx.segments.push(seg) }
phdr_cb_inner_push ==
    /\ pc = "push"
    /\ ctx' = IF Len(ctx.segments) < SegmentsCapacity
              THEN [ctx EXCEPT !.segments = Append(@, seg)]
              ELSE ctx
    /\ attempted' = Append(attempted, [object_i |-> seg.object_i, addrs |-> seg.addrs,
                                        remap |-> seg.remap # None,
                                        mlock |-> seg.mlock # None])
    /\ seg' = NoSegment
    /\ phdr_n' = phdr_n + 1
    /\ pc' = "for_seg"
    /\ UNCHANGED <<env, vm, log, huge_page_mask, object_n, rm, oscalls>>

\* The info record and log_maps("after", &mut log).
run_report ==
    /\ pc = "report"
    /\ log' = log_maps("after",
                  Append(log, Record("Info", "primed pages:",
                                     PrimedPages(ctx.segments, 1, None))))
    /\ pc' = "done"
    /\ UNCHANGED <<env, vm, huge_page_mask, ctx, object_n, phdr_n, seg, rm, oscalls, attempted>>

Next ==
    \/ run_log_maps_before
    \/ run_num_threads
    \/ run_huge_page_size
    \/ run_check_operations
    \/ run_dl_iterate_phdr
    \/ phdr_cb_inner_return
    \/ phdr_cb_inner_continue
    \/ phdr_cb_inner_segment
    \/ remap_entry
    \/ remap_start
    \/ remap_end
    \/ remap_plan
    \/ replace_memfd_create
    \/ replace_ftruncate
    \/ replace_mmap_tmp
    \/ replace_memcpy
    \/ replace_munmap_tmp
    \/ replace_mmap_fixed
    \/ remap_forget
    \/ remap_drop
    \/ phdr_cb_inner_remap
    \/ phdr_cb_inner_mlock
    \/ phdr_cb_inner_push
    \/ run_report

Spec == Init /\ [][Next]_vars

\* ================================================================= claims
\* The geometry of the spec, computed by division instead of masks: the
\* multiples of n next below and next above x.
FloorTo(x, n) == (x \div n) * n
CeilTo(x, n) == ((x + n - 1) \div n) * n

\* The huge page size the probe read.
HugeSize == huge_page_size(hpage_file).size

\* P: the base-page-aligned closure of the segment under construction.
P == Range(FloorTo(seg.addrs.start, page_size), CeilTo(seg.addrs.end, page_size))
\* H: the huge-page-aligned closure of P.
H == Range(FloorTo(P.start, HugeSize), CeilTo(P.end, HugeSize))
\* I: the largest huge-page-aligned range inside P (empty or inverted if none).
I == Range(CeilTo(P.start, HugeSize), FloorTo(P.end, HugeSize))

\* Segment::remap has returned and its result is not yet stored.
Returned == pc = "remap_ret"
ReturnedOk == Returned /\ rm.result[1].ok
ReturnedErr == Returned /\ ~rm.result[1].ok

\* The statements of Segment::remap at which start and end are planned.
Planned ==
    pc \in {"plan", "memfd_create", "ftruncate", "mmap_tmp", "memcpy",
            "munmap_tmp", "mmap_fixed", "forget", "drop"}
    \/ (Returned /\ refused(seg.flags) = None)

StartFailed == rm.start_attempted /\ rm.start_taken = None
EndFailed == rm.end_attempted /\ rm.end_taken = None

\* The address space is as the loader left it: nothing mapped, unmapped or
\* locked since.
Untouched ==
    vm = LoadedVm(objects, page_size, {a \in Addr : vm[a].kind = "foreign"})

Warnings == {i \in 1 .. Len(log) : log[i].level = "Warn"}

\* C1: when the thread count is not exactly 1, or unknown, run only appends a
\* warning and returns: it never reaches the enumeration, makes no OS call
\* on mappings or locks, and leaves the address space as it was, whatever the
\* options.
C1_ThreadGuard ==
    num_threads # Some(1) =>
        /\ pc \in {"run", "num_threads", "done"}
        /\ oscalls = {}
        /\ Untouched
        /\ ctx = NoContext
        /\ pc = "done" =>
              /\ Len(log) = 2
              /\ log[2].level = "Warn"
              /\ log[2].text \in
                    {"Skipping page priming: there are {t} threads running; must be 1!",
                     "Skipping page priming: unable to get thread count!"}

C1_Witness ==
    /\ pc = "done"
    /\ num_threads = Some(2)
    /\ options = [mlock |-> TRUE, remap |-> TRUE]
    /\ log[2].level = "Warn"
    /\ log[2].arg = Some(2)

\* C2, as claimed: every successful range covers P and is huge-page aligned
\* at both ends, whatever the padding reservations did.
C2_CoversP ==
    ReturnedOk =>
        /\ rm.result[1].range.start <= P.start
        /\ rm.result[1].range.end >= P.end
        /\ rm.result[1].range.start % HugeSize = 0
        /\ rm.result[1].range.end % HugeSize = 0

\* C2, amended: every successful range is huge-page aligned at both ends and
\* covers P on each side whose padding reservation did not fail; on a side
\* whose reservation failed it stops at the huge page boundary inside P.
C2_CoversPUnlessReservationFailed ==
    ReturnedOk =>
        /\ rm.result[1].range.start % HugeSize = 0
        /\ rm.result[1].range.end % HugeSize = 0
        /\ ~StartFailed => rm.result[1].range.start <= P.start
        /\ ~EndFailed => rm.result[1].range.end >= P.end
        /\ StartFailed => rm.result[1].range.start = I.start
        /\ EndFailed => rm.result[1].range.end = I.end

C2_Witness ==
    /\ ReturnedOk
    /\ StartFailed
    /\ rm.end_taken # None
    /\ rm.result[1].range.start > P.start
    /\ rm.result[1].range.end > P.end

\* C3: after a successful remap the bytes copied are those of P inside the
\* achieved range, every address of P inside the range is backed by the new
\* mapping and reads the byte it read before, and every address of P outside
\* the range is mapped exactly as before.
C3_BytesPreserved ==
    ReturnedOk =>
        /\ rm.copy.start = (IF rm.result[1].range.start > P.start
                            THEN rm.result[1].range.start ELSE P.start)
        /\ rm.copy.end = (IF rm.result[1].range.end < P.end
                          THEN rm.result[1].range.end ELSE P.end)
        /\ \A a \in RangeSet(P) :
              IF InRange(a, rm.result[1].range)
              THEN /\ vm[a].kind = "memfd"
                   /\ vm[a].byte = rm.vm_entry[a].byte
              ELSE vm[a] = rm.vm_entry[a]

C3_Witness ==
    /\ ReturnedOk
    /\ rm.start_taken # None
    /\ EndFailed
    /\ \E a \in RangeSet(P) : ~InRange(a, rm.result[1].range)
    /\ \E a \in RangeSet(P) : InRange(a, rm.result[1].range) /\ vm[a].byte # 0

\* C4, as claimed: a writable segment is answered Writable, an unreadable one
\* Unreadable, both without any OS call and with the address space unchanged.
C4_WritableUnreadable ==
    Returned =>
        /\ BitAnd(seg.flags, PF_W) # 0 =>
              /\ rm.result[1] = Err("Writable", "")
              /\ rm.calls = {}
              /\ vm = rm.vm_entry
        /\ BitAnd(seg.flags, PF_R) = 0 =>
              /\ rm.result[1] = Err("Unreadable", "")
              /\ rm.calls = {}
              /\ vm = rm.vm_entry

\* C4, amended: an unreadable segment, writable or not, is answered
\* Unreadable, and a readable writable one Writable; both without any OS call
\* and with the address space unchanged.
C4_UnreadableFirst ==
    Returned =>
        /\ BitAnd(seg.flags, PF_R) = 0 =>
              /\ rm.result[1] = Err("Unreadable", "")
              /\ rm.calls = {}
              /\ vm = rm.vm_entry
        /\ (BitAnd(seg.flags, PF_R) # 0 /\ BitAnd(seg.flags, PF_W) # 0) =>
              /\ rm.result[1] = Err("Writable", "")
              /\ rm.calls = {}
              /\ vm = rm.vm_entry

C4_Witness ==
    /\ Returned
    /\ seg.flags = PF_W
    /\ rm.result[1].err = "Unreadable"
    /\ rm.calls = {}

\* C5, as claimed: unless remap answers Conflict, the planned range lies
\* inside H and holds at least one address of P.
C5_PlanInsideHMeetsP ==
    (Planned /\ pc # "plan" /\ rm.result # Some(Err("Conflict", ""))) =>
        /\ H.start <= rm.start
        /\ rm.end <= H.end
        /\ \E a \in RangeSet(P) : InRange(a, Range(rm.start, rm.end))

\* C5 holds of every segment whose base-page closure is not empty.
C5_NonEmptyP ==
    (Planned /\ pc # "plan" /\ rm.result # Some(Err("Conflict", ""))
        /\ P.start < P.end) =>
        /\ H.start <= rm.start
        /\ rm.end <= H.end
        /\ \E a \in RangeSet(P) : InRange(a, Range(rm.start, rm.end))

\* C6: if both padding reservations were taken, the planned range is H.
C6_BothReserved ==
    (Planned /\ rm.start_taken # None /\ rm.end_taken # None) =>
        /\ rm.start_taken = Some(Range(H.start, P.start))
        /\ rm.end_taken = Some(Range(P.end, H.end))
        /\ Range(rm.start, rm.end) = H

C6_Witness ==
    /\ ReturnedOk
    /\ rm.start_taken # None
    /\ rm.end_taken # None
    /\ rm.result[1].range = H
    /\ H.start < P.start
    /\ P.end < H.end

\* C7: if both padding reservations failed, the planned range is I, and the
\* answer is Conflict exactly when I is empty or inverted.
C7_BothFailed ==
    (Planned /\ StartFailed /\ EndFailed) =>
        /\ Range(rm.start, rm.end) = I
        /\ Returned => (rm.result[1] = Err("Conflict", "") <=> I.start >= I.end)

C7_Witness ==
    /\ ReturnedOk
    /\ StartFailed
    /\ EndFailed
    /\ rm.result[1].range = I
    /\ I.start < I.end

\* C8: when remap returns an error, no reservation and no temporary mapping
\* is left anywhere, every address outside P is mapped as before the call,
\* and an address of P is as before or, after a failed replacing mmap, unmapped.
C8_ErrorLeavesNothing ==
    ReturnedErr =>
        \A a \in Addr :
            /\ vm[a].kind \notin {"resv", "tmp"}
            /\ ~InRange(a, P) => vm[a] = rm.vm_entry[a]
            /\ InRange(a, P) => vm[a] \in {rm.vm_entry[a], Unmapped}

C8_Witness ==
    /\ ReturnedErr
    /\ rm.result[1].err = "RemapFailed"
    /\ rm.start_taken # None
    /\ rm.end_taken # None
    /\ rm.tmp_addr # None

\* C9: with both options off and one thread, run ends with exactly one
\* warning, "No page priming operations to perform.", and never enumerates,
\* maps, unmaps or locks.
C9_DefaultOptions ==
    (options = [mlock |-> FALSE, remap |-> FALSE] /\ num_threads = Some(1)) =>
        /\ oscalls = {}
        /\ Untouched
        /\ pc \in {"run", "num_threads", "huge_page_size", "check_operations", "done"}
        /\ pc = "done" =>
              /\ Cardinality(Warnings) = 1
              /\ \A i \in Warnings :
                    log[i].text = "No page priming operations to perform."

C9_Witness ==
    /\ pc = "done"
    /\ options = [mlock |-> FALSE, remap |-> FALSE]
    /\ num_threads = Some(1)
    /\ Len(log) = 2
    /\ log[2] = Record("Warn", "No page priming operations to perform.", << >>)

\* The loadable segments in enumeration order, as phdr_cb_inner must have
\* finished with them when every one was attempted.
RECURSIVE AllLoadable(_, _)
AllLoadable(i, j) ==
    IF i > Len(objects) THEN << >>
    ELSE IF j > Len(objects[i].phdrs) THEN AllLoadable(i + 1, 1)
    ELSE IF objects[i].phdrs[j].p_type # PT_LOAD THEN AllLoadable(i, j + 1)
    ELSE << [object_i |-> i - 1,
             addrs |-> Range(objects[i].dlpi_addr + objects[i].phdrs[j].p_vaddr,
                             objects[i].dlpi_addr + objects[i].phdrs[j].p_vaddr
                                 + objects[i].phdrs[j].p_memsz),
             remap |-> huge_page_mask # None,
             mlock |-> options.mlock] >>
         \o AllLoadable(i, j + 1)

\* Once the enumeration has run, every loadable segment was attempted, and
\* what earlier segments achieved is still in place.
C10_Outcome ==
    /\ (pc \in {"report", "done"} /\ "dl_iterate_phdr" \in oscalls) =>
          attempted = AllLoadable(1, 1)
    /\ \A i \in 1 .. Len(ctx.segments) :
          (ctx.segments[i].remap # None /\ ctx.segments[i].remap[1].ok) =>
              \A a \in RangeSet(ctx.segments[i].remap[1].range) : vm[a].kind = "memfd"

\* The result of remap, error or not, goes into the segment's slot and the
\* lock step follows; the result of mlock goes into its slot and the push
\* follows; the loop then goes on with the next header; and no step changes
\* a recorded segment or takes a replacing mapping away.
C10_Step ==
    /\ pc = "remap_ret" => (seg'.remap = Some(rm.result[1]) /\ pc' = "mlock")
    /\ pc = "mlock" => (pc' = "push" /\ seg'.remap = seg.remap
                        /\ (ctx.mlock <=> seg'.mlock # None))
    /\ pc = "push" => (pc' = "for_seg" /\ phdr_n' = phdr_n + 1 /\ object_n' = object_n)
    /\ \A i \in 1 .. Len(ctx.segments) :
          i <= Len(ctx'.segments) /\ ctx'.segments[i] = ctx.segments[i]
    /\ \A a \in Addr : vm[a].kind = "memfd" => vm'[a] = [vm[a] EXCEPT !.locked = vm'[a].locked]

\* C10: a failure of remap or mlock is stored in the segment's slot and
\* stops nothing: every loadable segment of every object is attempted, and
\* nothing done for an earlier segment is undone.
C10_FailuresNotPropagated == [][C10_Step]_vars /\ []C10_Outcome

C10_Witness ==
    /\ pc = "done"
    /\ Len(attempted) = 3
    /\ Len(ctx.segments) = 2
    /\ ctx.segments[1].remap # None
    /\ ctx.segments[1].remap[1].err = "RemapFailed"
    /\ ctx.segments[1].mlock = Some(LockErr("ENOMEM"))
    /\ ctx.segments[2].remap # None
    /\ ctx.segments[2].remap[1].err = "Writable"
    /\ attempted[3].remap
    /\ attempted[3].mlock
    /\ \E a \in Addr : vm[a].kind = "memfd" /\ vm[a].locked

\* The address space as the loader left it, whatever was done since: other
\* owners' mappings are never changed by the program.
InitialVm == LoadedVm(objects, page_size, {a \in Addr : vm[a].kind = "foreign"})

\* s is an initial part of t.
IsPrefix(s, t) == Len(s) <= Len(t) /\ s = SubSeq(t, 1, Len(s))

\* The run got to dl_iterate_phdr.
Enumerated == "dl_iterate_phdr" \in oscalls

\* The statements of Segment::remap and replace, up to the return.
InRemap ==
    pc \in {"remap", "start_reservation", "end_reservation", "plan",
            "memfd_create", "ftruncate", "mmap_tmp", "memcpy", "munmap_tmp",
            "mmap_fixed", "forget", "drop", "remap_ret"}

\* The segment lines of an info record, without the object headers.
StarLines(lines) == SelectSeq(lines, LAMBDA l : l.line = "*")

\* Segments in enumeration order, remap before lock, and the info record's
\* segment lines in the order of the recorded segments.
C11_Order ==
    /\ Enumerated => IsPrefix(attempted, AllLoadable(1, 1))
    /\ InRemap => seg.mlock = None
    /\ (pc = "mlock" /\ ctx.huge_page_mask # None) => (seg.remap # None /\ seg.mlock = None)
    /\ Enumerated =>
          IsPrefix([i \in 1 .. Len(ctx.segments) |-> ctx.segments[i].addrs],
                   [i \in 1 .. Len(attempted) |-> attempted[i].addrs])
    /\ (Enumerated /\ pc = "done") =>
          /\ log[Len(log) - 1].level = "Info"
          /\ [i \in 1 .. Len(StarLines(log[Len(log) - 1].arg)) |->
                 StarLines(log[Len(log) - 1].arg)[i].addrs]
                = [i \in 1 .. Len(ctx.segments) |-> ctx.segments[i].addrs]

\* C11, as claimed: the order above, and the first record is the snapshot of
\* the address space before any mapping operation, the last the snapshot
\* after all of them.
C11_SnapshotsBracket ==
    /\ C11_Order
    /\ (pc = "num_threads") => oscalls = {}
    /\ (pc = "num_threads") =>
          log = << Record("Trace", "maps before:", <<MapsSnapshot(vm)>>) >>
    /\ (Enumerated /\ pc = "done") =>
          /\ log[1] = Record("Trace", "maps before:", <<MapsSnapshot(InitialVm)>>)
          /\ log[Len(log)] = Record("Trace", "maps after:", <<MapsSnapshot(vm)>>)

\* C11, amended: the order above; the first record is the trace record of
\* log_maps("before"), made before any mapping operation, and the last that
\* of log_maps("after"), made after all of them; each holds the snapshot when
\* /proc/self/maps can be read and only says the maps could not be read
\* otherwise.
C11_TraceRecordsBracket ==
    /\ C11_Order
    /\ (pc = "num_threads") => oscalls = {}
    /\ (pc = "num_threads") =>
          log = << IF proc_maps
                   THEN Record("Trace", "maps before:", <<MapsSnapshot(vm)>>)
                   ELSE Record("Trace", "couldn't read maps", << >>) >>
    /\ (Enumerated /\ pc = "done") =>
          /\ Len(log) >= 3
          /\ log[1] = (IF proc_maps
                       THEN Record("Trace", "maps before:", <<MapsSnapshot(InitialVm)>>)
                       ELSE Record("Trace", "couldn't read maps", << >>))
          /\ log[Len(log)] =
                (IF proc_maps
                 THEN Record("Trace", "maps after:", <<MapsSnapshot(vm)>>)
                 ELSE Record("Trace", "couldn't read maps", << >>))

C11_Witness ==
    /\ pc = "done"
    /\ Enumerated
    /\ ~proc_maps
    /\ options = [mlock |-> TRUE, remap |-> TRUE]
    /\ Len(attempted) = 3
    /\ Len(StarLines(log[Len(log) - 1].arg)) = 2
    /\ log[1].text = "couldn't read maps"
    /\ log[Len(log)].text = "couldn't read maps"
    /\ \E a \in Addr : vm[a].kind = "memfd"

\* C12: only the segments kept in ctx.segments are remapped or locked: a
\* segment that found the buffer full was neither remapped nor locked, so
\* every replaced or locked segment has its line in the info record.
C12_OnlyCollected ==
    /\ \A i \in 1 .. Len(attempted) :
          i > Len(ctx.segments) => (~attempted[i].remap /\ ~attempted[i].mlock)
    /\ (pc = "push" /\ Len(ctx.segments) >= SegmentsCapacity) =>
          (seg.remap = None /\ seg.mlock = None)

\* The hpage_pmd_size file is there and states a size.
HugePagesAvailable ==
    hpage_file.state = "Read" /\ hpage_file.data \in {<<"4", "\n">>, <<"8", "\n">>}
\* The file is there and the probe could not read or parse it.
ProbeFailed == hpage_file.state # "NotFound" /\ ~HugePagesAvailable

\* C13, as claimed: in a multi-threaded process, or without huge pages and
\* without a lock request, or after a failed probe, run returns early and
\* its output holds only warning records.
C13_OnlyWarnings ==
    (pc = "done"
        /\ \/ num_threads # Some(1)
           \/ (~(options.remap /\ HugePagesAvailable) /\ ~options.mlock)
           \/ (options.remap /\ ProbeFailed)) =>
        /\ ~Enumerated
        /\ \A i \in 1 .. Len(log) : log[i].level = "Warn"

\* C13, amended: when the thread count is not 1 or unknown, or when remap
\* cannot be done (not requested, no huge pages, or a failed probe) and no
\* lock is requested, run returns early and its output is the trace record
\* of log_maps("before") followed by warning records only, at least one;
\* after a failed probe with a lock requested run does not return early.
C13_TraceThenWarnings ==
    /\ (pc = "done"
          /\ \/ num_threads # Some(1)
             \/ (~(options.remap /\ HugePagesAvailable) /\ ~options.mlock)) =>
          /\ ~Enumerated
          /\ oscalls = {}
          /\ Len(log) >= 2
          /\ log[1].level = "Trace"
          /\ \A i \in 2 .. Len(log) : log[i].level = "Warn"
    /\ (pc = "done" /\ num_threads = Some(1) /\ options.mlock) =>
          /\ Enumerated
          /\ log[Len(log) - 1].level = "Info"
          /\ (options.remap /\ ProbeFailed) =>
                log[2] = Record("Warn", "Unable to describe huge page size: {e}",
                                <<IF hpage_file.state = "IoError"
                                  THEN "Other" ELSE "InvalidData">>)

C13_Witness ==
    /\ pc = "done"
    /\ num_threads = Some(1)
    /\ options = [mlock |-> FALSE, remap |-> TRUE]
    /\ hpage_file.state = "IoError"
    /\ Len(log) = 3
    /\ log[1].level = "Trace"
    /\ log[2].text = "Unable to describe huge page size: {e}"
    /\ log[3].text = "No page priming operations to perform."

\* The triad of a flag word, each bit tested on its own.
Triad(flags) ==
    << IF (flags \div 4) % 2 = 1 THEN "r" ELSE "-",
       IF (flags \div 2) % 2 = 1 THEN "w" ELSE "-",
       IF flags % 2 = 1 THEN "x" ELSE "-" >>

\* C14: in every segment line of the info record the triad shows the flag
\* bits of the segment: r iff readable, w iff writable, x iff executable.
C14_TriadReflectsFlags ==
    (Enumerated /\ pc = "done") =>
        \A i \in 1 .. Len(ctx.segments) :
            /\ i <= Len(StarLines(log[Len(log) - 1].arg))
            /\ StarLines(log[Len(log) - 1].arg)[i].prot = Triad(ctx.segments[i].flags)

\* Digit strings of one to three digits, and their values read from the left.
DigitStrings ==
    UNION {[1 .. n -> {"0", "1", "2", "7", "9"}] : n \in 1 .. 3}
ValueFromLeft(d) ==
    LET v(c) == CASE c = "0" -> 0 [] c = "1" -> 1 [] c = "2" -> 2
                  [] c = "7" -> 7 [] c = "9" -> 9
    IN  IF Len(d) = 1 THEN v(d[1])
        ELSE IF Len(d) = 2 THEN 10 * v(d[1]) + v(d[2])
        ELSE 100 * v(d[1]) + 10 * v(d[2]) + v(d[3])
\* File contents that are no number.
NonNumeric ==
    { << >>, <<"\n">>, <<"a", "b", "c">>, <<"4", "k">>, <<"4", " ", "8">>,
      <<"-", "1">>, <<"0", "x", "8">>, <<"0xFF">>, <<"2", "0xFF", "\n">> }
\* The size the hpage_pmd_size file of this run states.
StatedSize == IF hpage_file.data = <<"4", "\n">> THEN 4 ELSE 8

\* C15: the probe answers None for a missing file, the number for a file
\* holding a decimal number with or without a newline after it, and an
\* invalid-data failure for a file holding anything else; in run, None and
\* failure each add a warning and leave no huge page mask, and a requested
\* mlock is still attempted on every segment.
C15_Probe ==
    /\ (pc = "huge_page_size" /\ Len(objects) > 1) =>
          /\ huge_page_size([state |-> "NotFound", data |-> << >>])
                = [ok |-> TRUE, some |-> FALSE, size |-> 0, kind |-> ""]
          /\ \A d \in DigitStrings : \A nl \in {<< >>, <<"\n">>} :
                huge_page_size([state |-> "Read", data |-> d \o nl])
                    = [ok |-> TRUE, some |-> TRUE, size |-> ValueFromLeft(d), kind |-> ""]
          /\ parse_huge_page_size(<<"2", "0", "9", "7", "1", "5", "2", "\n">>).ok
          /\ parse_huge_page_size(<<"2", "0", "9", "7", "1", "5", "2", "\n">>).size = 2097152
          /\ \A d \in NonNumeric :
                /\ ~huge_page_size([state |-> "Read", data |-> d]).ok
                /\ huge_page_size([state |-> "Read", data |-> d]).kind = "InvalidData"
    /\ (pc \notin {"run", "num_threads", "huge_page_size"}
          /\ num_threads = Some(1) /\ options.remap) =>
          /\ HugePagesAvailable =>
                (huge_page_mask = Some(StatedSize - 1) /\ Warnings = {})
          /\ hpage_file.state = "NotFound" =>
                /\ huge_page_mask = None
                /\ log[2] = Record("Warn",
                        "Huge page remapping requested but huge pages unavailable.", << >>)
          /\ ProbeFailed =>
                /\ huge_page_mask = None
                /\ log[2].level = "Warn"
                /\ log[2].text = "Unable to describe huge page size: {e}"
    /\ (pc = "done" /\ num_threads = Some(1) /\ options.remap /\ options.mlock
          /\ ~HugePagesAvailable) =>
          /\ Enumerated
          /\ Len(attempted) = Len(AllLoadable(1, 1))
          /\ \A i \in 1 .. Len(attempted) : attempted[i].mlock /\ ~attempted[i].remap
          /\ \A a \in Addr : vm[a].kind # "memfd"

C15_Witness ==
    /\ pc = "done"
    /\ num_threads = Some(1)
    /\ options = [mlock |-> TRUE, remap |-> TRUE]
    /\ hpage_file = [state |-> "Read", data |-> <<"a", "b", "c">>]
    /\ log[2].arg = <<"InvalidData">>
    /\ Len(attempted) = 3
    /\ \A i \in 1 .. 3 : attempted[i].mlock
    /\ \E a \in Addr : vm[a].locked

\* What Reservation::new(range) may do to the address space m, given the
\* Option it returned: Some(range) with the range, free before, now mapped
\* without access and nothing else changed, or None with nothing changed.
ClaimOrFail(range, res, m, n) ==
    IF res # None
    THEN /\ res = Some(range)
         /\ range.start < range.end
         /\ \A a \in Addr :
               IF InRange(a, range)
               THEN m[a].kind = "unmapped" /\ n[a].kind = "resv" /\ n[a].prot = {}
               ELSE n[a] = m[a]
    ELSE n = m

C16_Step ==
    /\ (pc = "start_reservation" /\ rm'.start_attempted) =>
          ClaimOrFail(Range(rm.hugepage_outer_range.start, rm.page_range.start),
                      rm'.start_reservation, vm, vm')
    /\ (pc = "end_reservation" /\ rm'.end_attempted) =>
          ClaimOrFail(Range(rm.page_range.end, rm.hugepage_outer_range.end),
                      rm'.end_reservation, vm, vm')

\* C16: Reservation::new either returns the reservation with exactly its
\* range newly mapped without access, or returns none and leaves the address
\* space as it was, also when the kernel mapped at another address; it never
\* maps over or shrinks a mapping in the range.
C16_ClaimOrFail == [][C16_Step]_vars

C16_Witness ==
    /\ pc = "plan"
    /\ StartFailed
    /\ "munmap" \in rm.calls
    /\ rm.end_taken # None
    /\ \A a \in Addr :
          IF InRange(a, rm.end_taken[1]) THEN vm[a].kind = "resv"
          ELSE vm[a] = rm.vm_entry[a]

\* The statements of replace from the creation of the temporary mapping to
\* the replacing mmap, and those at which the temporary mapping exists.
Replacing == pc \in {"mmap_tmp", "memcpy", "munmap_tmp", "mmap_fixed"}
TemporaryMapped == pc \in {"memcpy", "munmap_tmp"}

\* The address lies in a padding reservation the call holds.
HeldReservation(a) ==
    \/ rm.start_reservation # None /\ InRange(a, rm.start_reservation[1])
    \/ rm.end_reservation # None /\ InRange(a, rm.end_reservation[1])

\* C17: from the creation of the temporary mapping to the replacing mmap,
\* every address of the planned range is one of the segment's own pages,
\* mapped as at entry, or lies in a padding reservation the call holds; the
\* temporary mapping lies outside the planned range, on addresses that were
\* free, so the replacing mmap displaces nothing the call does not own.
C17_PlannedRangeOwned ==
    /\ Replacing =>
          \A a \in Addr :
              InRange(a, Range(rm.start, rm.end)) =>
                  \/ /\ InRange(a, P)
                     /\ vm[a].kind = "file"
                     /\ vm[a] = rm.vm_entry[a]
                  \/ /\ ~InRange(a, P)
                     /\ vm[a].kind = "resv"
                     /\ rm.vm_entry[a].kind = "unmapped"
                     /\ HeldReservation(a)
    /\ Replacing => (rm.start < rm.end /\ rm.end <= VmTop /\ rm.map = Range(rm.start, rm.end))
    /\ TemporaryMapped =>
          \A a \in Addr :
              vm[a].kind = "tmp" <=>
                  InRange(a, Range(rm.tmp_addr[1], rm.tmp_addr[1] + (rm.end - rm.start)))
    /\ TemporaryMapped =>
          \A a \in Addr :
              vm[a].kind = "tmp" =>
                  (~InRange(a, Range(rm.start, rm.end)) /\ rm.vm_entry[a].kind = "unmapped")

C17_Witness ==
    /\ pc = "munmap_tmp"
    /\ rm.start_taken # None
    /\ EndFailed
    /\ rm.end < P.end
    /\ rm.tmp_addr[1] > rm.end
    /\ \E a \in Addr : vm[a].kind = "foreign"
    /\ \E a \in Addr : vm[a].kind = "tmp" /\ vm[a].byte # 0

\* r lies inside s.
Within(r, s) == s.start <= r.start /\ r.end <= s.end

\* C18: when remap succeeds, each padding reservation it took lies inside
\* the achieved range, no reservation is left mapped anywhere, and the whole
\* achieved range is the replacing mapping: nothing of it was unmapped.
C18_ReservationsConsumed ==
    (pc = "forget" \/ ReturnedOk) =>
        /\ rm.start_taken # None => Within(rm.start_taken[1], Range(rm.start, rm.end))
        /\ rm.end_taken # None => Within(rm.end_taken[1], Range(rm.start, rm.end))
        /\ \A a \in Addr : vm[a].kind # "resv"
        /\ \A a \in RangeSet(Range(rm.start, rm.end)) : vm[a].kind = "memfd"
        /\ ReturnedOk =>
              /\ rm.result[1].range = Range(rm.start, rm.end)
              /\ rm.start_reservation = None
              /\ rm.end_reservation = None

C18_Witness ==
    /\ ReturnedOk
    /\ ~rm.start_attempted
    /\ rm.end_taken # None
    /\ rm.end_taken[1].start < rm.end_taken[1].end
    /\ \A a \in RangeSet(rm.end_taken[1]) : vm[a].kind = "memfd" /\ vm[a].byte = 0

\* C19: a recorded segment has a remap result iff remap was requested and
\* the probe found a huge page size, and an mlock result iff mlock was
\* requested; so a run that locks without remapping attempts the lock on
\* every segment, and every segment line of its info record has an mlock
\* outcome and no remap field.
C19_SlotsFollowOptions ==
    /\ \A i \in 1 .. Len(ctx.segments) :
          /\ ctx.segments[i].remap # None <=> (options.remap /\ HugePagesAvailable)
          /\ ctx.segments[i].mlock # None <=> options.mlock
    /\ (pc = "done" /\ Enumerated /\ options.mlock
          /\ ~(options.remap /\ HugePagesAvailable)) =>
          /\ Len(attempted) = Len(AllLoadable(1, 1))
          /\ \A i \in 1 .. Len(attempted) : attempted[i].mlock
          /\ Len(StarLines(log[Len(log) - 1].arg)) = Len(ctx.segments)
          /\ Len(ctx.segments) > 0
          /\ \A i \in 1 .. Len(StarLines(log[Len(log) - 1].arg)) :
                /\ StarLines(log[Len(log) - 1].arg)[i].mlock # None
                /\ StarLines(log[Len(log) - 1].arg)[i].remap = None

C19_Witness ==
    /\ pc = "done"
    /\ options = [mlock |-> TRUE, remap |-> FALSE]
    /\ Len(ctx.segments) = 2
    /\ StarLines(log[Len(log) - 1].arg)[1].mlock = Some(<<"success", "">>)
    /\ StarLines(log[Len(log) - 1].arg)[2].mlock = Some(<<"error", "ENOMEM">>)
    /\ StarLines(log[Len(log) - 1].arg)[1].remap = None

\* The lock step: the lock is attempted and its result stored; a success has
\* pinned exactly the pages of the segment's original range, a failure
\* nothing.
C20_Step ==
    (pc = "mlock" /\ options.mlock) =>
        /\ seg'.mlock # None
        /\ seg'.addrs = seg.addrs
        /\ IF seg'.mlock[1].ok
           THEN vm' = [a \in Addr |-> IF InRange(a, P)
                                      THEN [vm[a] EXCEPT !.locked = TRUE]
                                      ELSE vm[a]]
           ELSE vm' = vm

\* Whatever remap did, the lock was attempted; and only pages of loadable
\* segments are ever locked.
C20_Outcome ==
    /\ (pc = "push" /\ options.mlock) => seg.mlock # None
    /\ \A a \in Addr :
          vm[a].locked =>
              \E g \in LoadSegments(objects) :
                  /\ FloorTo(g.range.start, page_size) <= a
                  /\ a < CeilTo(g.range.end, page_size)

\* C20: when mlock is requested, the lock is attempted on the original
\* address range of the segment, never on the achieved remap range, and
\* whether remap succeeded, failed or was not attempted.
C20_LockOriginalRange == [][C20_Step]_vars /\ []C20_Outcome

C20_Witness ==
    /\ pc = "done"
    /\ Len(ctx.segments) = 2
    /\ ctx.segments[1].remap # None
    /\ ctx.segments[1].remap[1].ok
    /\ ctx.segments[1].remap[1].range.start < 4
    /\ ctx.segments[1].mlock = Some(LockOk)
    /\ ctx.segments[2].remap = Some(Err("Writable", ""))
    /\ ctx.segments[2].mlock = Some(LockOk)
    /\ \E a \in RangeSet(ctx.segments[1].remap[1].range) : ~vm[a].locked
    /\ \E a \in RangeSet(ctx.segments[1].remap[1].range) : vm[a].locked

\* replace has returned to Segment::remap.
ReplaceReturned == pc \in {"forget", "drop", "remap_ret"}

\* C21: once memfd_create has succeeded, replace closes the descriptor
\* exactly once before it returns, on each failure path and on success; the
\* temporary mapping is unmapped before the replacing mmap is attempted; no
\* descriptor and no temporary mapping is left when replace has returned.
C21_DescriptorClosedOnce ==
    /\ rm.fd = "open" =>
          (rm.closes = 0 /\ pc \in {"ftruncate", "mmap_tmp", "memcpy",
                                      "munmap_tmp", "mmap_fixed"})
    /\ rm.fd = "closed" => (rm.closes = 1 /\ ReplaceReturned)
    /\ rm.fd = "none" => rm.closes = 0
    /\ ReplaceReturned =>
          /\ rm.fd # "open"
          /\ \A a \in Addr : vm[a].kind # "tmp"
          /\ (rm.result # None /\ ~rm.result[1].ok
                /\ rm.result[1].err \in {"FtruncateFailed", "InitialMmapFailed",
                                          "RemapFailed"}) => rm.fd = "closed"
          /\ (pc = "forget" \/ (rm.result # None /\ rm.result[1].ok)) => rm.fd = "closed"
    /\ pc = "mmap_fixed" =>
          /\ rm.tmp_addr # None
          /\ "munmap" \in rm.calls
          /\ \A a \in Addr : vm[a].kind # "tmp"
    /\ (\E a \in Addr : vm[a].kind = "tmp") => pc \in {"memcpy", "munmap_tmp"}

C21_Witness ==
    /\ pc = "forget"
    /\ rm.fd = "closed"
    /\ rm.closes = 1
    /\ rm.tmp_addr # None
    /\ vm[rm.tmp_addr[1]].kind # "tmp"
    /\ \E a \in RangeSet(rm.map) : vm[a].kind = "memfd" /\ vm[a].byte # 0

\* ------------------------------------------- the probe on any stated size
\* run up to the huge page size probe, in a single-threaded process that
\* asks for remap, on a hpage_pmd_size file stating any number of one to
\* three digits.
InitMask ==
    /\ InitLocals
    /\ options = [mlock |-> FALSE, remap |-> TRUE]
    /\ num_threads = Some(1)
    /\ hpage_file \in {[state |-> "Read", data |-> d \o <<"\n">>] : d \in DigitStrings}
    /\ page_size = 4
    /\ proc_maps = TRUE
    /\ objects = DriverProgram
    /\ vm = LoadedVm(objects, page_size, {})

NextMask ==
    \/ run_log_maps_before
    \/ run_num_threads
    \/ run_huge_page_size

SpecMask == InitMask /\ [][NextMask]_vars

\* The number the file of this run states.
StatedNumber == ValueFromLeft(SubSeq(hpage_file.data, 1, Len(hpage_file.data) - 1))
PowerOfTwoAboveOne(n) == \E k \in 1 .. 10 : n = 2 ^ k
\* The probe statement of run has been executed.
Probed == pc \in {"check_operations", "panic"}

\* C22: mask(n) returns n - 1 when n is a power of two greater than one, and
\* its assertion fails for every other n, 1 included.
C22_MaskAsserts ==
    Probed =>
        IF PowerOfTwoAboveOne(StatedNumber)
        THEN pc = "check_operations" /\ huge_page_mask = Some(StatedNumber - 1)
        ELSE pc = "panic"

\* What mask does: its assertion fails for 0 only, and every other n gives
\* n - 1.
C22_MaskPanicsOnZeroOnly ==
    Probed =>
        IF StatedNumber = 0
        THEN pc = "panic"
        ELSE pc = "check_operations" /\ huge_page_mask = Some(StatedNumber - 1)
====
